---------------------------- MODULE Spec2Model ----------------------------
(***************************************************************************)
(* Attribute <-> property synchronisation for custom elements.             *)
(*                                                                         *)
(*   src/src/util.ts        toKebabCase / mustKebabCase / getAccessor      *)
(*   src/unnamed/part_000   attribute, attributable, the binder            *)
(*                          and the five per-kind descriptors              *)
(*   src/test/attributable.ts   the classes the tests declare              *)
(*                                                                         *)
(* Text (property names, attribute names, attribute values) is a sequence  *)
(* of one-character strings, so that the regular-expression replacements,  *)
(* String(), Number(), JSON.stringify and JSON.parse are computed on the   *)
(* characters.                                                             *)
(***************************************************************************)
EXTENDS Integers, Sequences, FiniteSets, TLC

VARIABLES
    key,        \* naming: the string handed to mustKebabCase
    normalized, \* naming: what mustKebabCase did with it
    klass,      \* the class under definition: target and decorated members
    phase,      \* "defining" | "defined" | "constructed" | "mounted" | "failed"
    error,      \* the exception that ended the last define / construct / mount
    registry,   \* attributeRegistry(metadata): ordered <<name, value>> pairs
    props,      \* the instance's own properties, per member name
    attrs,      \* the element's attribute store, per attribute name
    priv,       \* #testGetterSetter of the tests' class
    getCalls,   \* testGetterSetterGetCount
    setCalls,   \* testGetterSetterSetCount
    log,        \* what the last mountCallback invocation did, in order
    mounts,     \* invocations of the wrapped mountCallback
    origCalls,  \* invocations of the host's original mountCallback
    writer,     \* per attribute: the property whose setter wrote its text last
    lastOp      \* the last operation on the instance

vars == <<key, normalized, klass, phase, error, registry, props, attrs, priv,
          getCalls, setCalls, log, mounts, origCalls, writer, lastOp>>

namingVars == <<key, normalized>>

componentVars == <<klass, phase, error, registry, props, attrs, priv,
                   getCalls, setCalls, log, mounts, origCalls, writer, lastOp>>

(***************************************************************************)
(* Bounds of the model.                                                    *)
(***************************************************************************)
MaxKeyLen == 4

MaxMounts == 2

MaxCalls == 2

(***************************************************************************)
(* Characters.                                                             *)
(***************************************************************************)
UpperSeq == <<"A","B","C","D","E","F","G","H","I","J","K","L","M",
              "N","O","P","Q","R","S","T","U","V","W","X","Y","Z">>

LowerSeq == <<"a","b","c","d","e","f","g","h","i","j","k","l","m",
              "n","o","p","q","r","s","t","u","v","w","x","y","z">>

Range(s) == {s[i] : i \in DOMAIN s}

UpperChars == Range(UpperSeq)

LowerChars == Range(LowerSeq)

\* [A-Z]
IsUpper(c) == c \in UpperChars

\* [a-z]
IsLower(c) == c \in LowerChars

ToLowerChar(c) ==
    IF IsUpper(c)
    THEN LowerSeq[CHOOSE i \in DOMAIN UpperSeq : UpperSeq[i] = c]
    ELSE c

\* String.prototype.toLowerCase
toLowerCase(s) == [i \in DOMAIN s |-> ToLowerChar(s[i])]

\* String.prototype.includes, for a one-character needle
includes(s, c) == \E i \in DOMAIN s : s[i] = c

Drop(s, n) == SubSeq(s, n + 1, Len(s))

(***************************************************************************)
(* util.ts: toKebabCase, one replacement per definition.                   *)
(***************************************************************************)
RECURSIVE ReplaceCapitals(_)
RECURSIVE ReplaceCapitalRuns(_)
RECURSIVE ReplaceDoubleHyphens(_)

\* The match /[A-Z]($|[a-z])/ at the head of s: its length, 0 when none.
CapitalMatch(s) ==
    IF s = <<>> \/ ~IsUpper(s[1]) THEN 0
    ELSE IF Len(s) = 1 THEN 1
    ELSE IF IsLower(s[2]) THEN 2
    ELSE 0

\* The upper-case run at the head of s.
RECURSIVE UpperRunLen(_)
UpperRunLen(s) ==
    IF s = <<>> \/ ~IsUpper(s[1]) THEN 0 ELSE 1 + UpperRunLen(Tail(s))

\* A variant matching /[A-Z]+($|[a-z])/: a whole run of capitals.
CapitalRunMatch(s) ==
    LET n == UpperRunLen(s)
    IN  IF n = 0 THEN 0
        ELSE IF Len(s) = n THEN n
        ELSE IF IsLower(s[n + 1]) THEN n + 1
        ELSE 0

ReplaceCapitalRuns(s) ==
    IF s = <<>> THEN <<>>
    ELSE LET n == CapitalRunMatch(s)
         IN  IF n > 0
             THEN <<"-">> \o SubSeq(s, 1, n) \o ReplaceCapitalRuns(Drop(s, n))
             ELSE <<s[1]>> \o ReplaceCapitalRuns(Tail(s))

\* .replace(/([A-Z]($|[a-z]))/g, '-$1')
ReplaceCapitals(s) ==
    IF s = <<>> THEN <<>>
    ELSE LET n == CapitalMatch(s)
         IN  IF n > 0
             THEN <<"-">> \o SubSeq(s, 1, n) \o ReplaceCapitals(Drop(s, n))
             ELSE <<s[1]>> \o ReplaceCapitals(Tail(s))

\* .replace(/--/g, '-'): non-overlapping matches, left to right
ReplaceDoubleHyphens(s) ==
    IF Len(s) >= 2 /\ s[1] = "-" /\ s[2] = "-"
    THEN <<"-">> \o ReplaceDoubleHyphens(Drop(s, 2))
    ELSE IF s = <<>> THEN <<>>
    ELSE <<s[1]>> \o ReplaceDoubleHyphens(Tail(s))

\* .replace(/^-|-$/, ''): no g flag, so the leftmost match only
StripEdgeHyphen(s) ==
    IF s # <<>> /\ s[1] = "-" THEN Tail(s)
    ELSE IF s # <<>> /\ s[Len(s)] = "-" THEN SubSeq(s, 1, Len(s) - 1)
    ELSE s

\* A variant of toKebabCase that separates before whole runs of capitals.
toKebabCaseByRuns(k) ==
    toLowerCase(StripEdgeHyphen(ReplaceDoubleHyphens(ReplaceCapitalRuns(k))))

toKebabCase(k) ==
    toLowerCase(StripEdgeHyphen(ReplaceDoubleHyphens(ReplaceCapitals(k))))

\* The outcome of a call: a returned value or a thrown exception.
Return(v) == [ok |-> TRUE, val |-> v, err |-> "none"]

Throw(e) == [ok |-> FALSE, val |-> <<>>, err |-> e]

mustKebabCase(k) ==
    LET kebabCase == toKebabCase(k)
    IN  IF ~includes(kebabCase, "-")
        THEN Throw("SyntaxError")
        ELSE Return(kebabCase)

(***************************************************************************)
(* JavaScript values.  Every value is a record of one shape: a tag t, a    *)
(* number n, a string s and the elements e.  An object's e lists its own   *)
(* enumerable properties as key, value, key, value, ... in insertion       *)
(* order, each key a string value.                                         *)
(***************************************************************************)
Val(t, n, s, e) == [t |-> t, n |-> n, s |-> s, e |-> e]

Undefined == Val("undefined", 0, <<>>, <<>>)

Null == Val("null", 0, <<>>, <<>>)

NaN == Val("NaN", 0, <<>>, <<>>)

Num(n) == Val("number", n, <<>>, <<>>)

Str(s) == Val("string", 0, s, <<>>)

Bool(b) == Val("boolean", IF b THEN 1 ELSE 0, <<>>, <<>>)

Arr(e) == Val("array", 0, <<>>, e)

Obj(e) == Val("object", 0, <<>>, e)

BigInt(n) == Val("bigint", n, <<>>, <<>>)

\* The outcome of an expression that yields a value or throws.
Ok(v) == [ok |-> TRUE, val |-> v, err |-> "none"]

Raise(e) == [ok |-> FALSE, val |-> Undefined, err |-> e]

\* typeof v
TypeOf(v) ==
    CASE v.t = "NaN" -> "number"
      [] v.t \in {"null", "array", "object"} -> "object"
      [] OTHER -> v.t

\* Array.isArray(v)
IsArray(v) == v.t = "array"

\* ToBoolean(v), as || and ?: apply it
Truthy(v) ==
    CASE v.t \in {"undefined", "null", "NaN"} -> FALSE
      [] v.t \in {"number", "bigint", "boolean"} -> v.n # 0
      [] v.t = "string" -> v.s # <<>>
      [] OTHER -> TRUE

\* a || b
OrElse(a, b) == IF Truthy(a) THEN a ELSE b

\* a ?? b
Coalesce(a, b) == IF a.t \in {"undefined", "null"} THEN b ELSE a

DigitSeq == <<"0","1","2","3","4","5","6","7","8","9">>

DigitChars == Range(DigitSeq)

IsDigit(c) == c \in DigitChars

DigitVal(c) == (CHOOSE i \in DOMAIN DigitSeq : DigitSeq[i] = c) - 1

RECURSIVE Digits(_)
\* The decimal digits of a natural number.
Digits(n) ==
    IF n < 10 THEN <<DigitSeq[n + 1]>>
    ELSE Digits(n \div 10) \o <<DigitSeq[(n % 10) + 1]>>

RECURSIVE DigitsValue(_, _)
\* The number a run of decimal digits denotes, leading zeros allowed.
DigitsValue(s, acc) ==
    IF s = <<>> THEN acc ELSE DigitsValue(Tail(s), 10 * acc + DigitVal(s[1]))

\* String(v), as setAttribute applies it to its second argument.  Numbers
\* are the naturals and NaN.
StringOf(v) ==
    CASE v.t = "string" -> v.s
      [] v.t = "number" -> Digits(v.n)
      [] v.t = "NaN" -> <<"N","a","N">>
      [] v.t = "boolean" -> IF v.n = 1 THEN <<"t","r","u","e">>
                            ELSE <<"f","a","l","s","e">>
      [] v.t = "null" -> <<"n","u","l","l">>
      [] v.t = "undefined" -> <<"u","n","d","e","f","i","n","e","d">>

RECURSIVE TrimLeft(_)
TrimLeft(s) == IF s # <<>> /\ s[1] = " " THEN TrimLeft(Tail(s)) ELSE s

RECURSIVE TrimRight(_)
TrimRight(s) ==
    IF s # <<>> /\ s[Len(s)] = " " THEN TrimRight(SubSeq(s, 1, Len(s) - 1))
    ELSE s

\* Number(v) for a number or a string: the string is trimmed, the empty
\* string is 0, a run of decimal digits is its value and any other text of
\* the model's alphabet is NaN.
ToNumber(v) ==
    IF v.t \in {"number", "NaN"} THEN v
    ELSE LET s == TrimRight(TrimLeft(v.s))
         IN  IF s = <<>> THEN Num(0)
             ELSE IF \A i \in DOMAIN s : IsDigit(s[i]) THEN Num(DigitsValue(s, 0))
             ELSE NaN

(***************************************************************************)
(* JSON.stringify, for the values above (no escapes are needed for the     *)
(* model's strings).                                                       *)
(***************************************************************************)
RECURSIVE JSONStringify(_)
RECURSIVE StringifyElements(_, _)
RECURSIVE StringifyMembers(_, _)

Quote(s) == <<"\"">> \o s \o <<"\"">>

\* Values JSON.stringify leaves out of an object and writes as null in an array.
Unserializable(v) == v.t = "undefined"

StringifyElements(e, first) ==
    IF e = <<>> THEN <<>>
    ELSE (IF first THEN <<>> ELSE <<",">>)
         \o (IF Unserializable(e[1]) THEN <<"n","u","l","l">>
             ELSE JSONStringify(e[1]))
         \o StringifyElements(Tail(e), FALSE)

StringifyMembers(e, first) ==
    IF e = <<>> THEN <<>>
    ELSE IF Unserializable(e[2]) THEN StringifyMembers(Drop(e, 2), first)
    ELSE (IF first THEN <<>> ELSE <<",">>)
         \o Quote(e[1].s) \o <<":">> \o JSONStringify(e[2])
         \o StringifyMembers(Drop(e, 2), FALSE)

JSONStringify(v) ==
    CASE v.t = "number" -> Digits(v.n)
      [] v.t \in {"NaN", "null"} -> <<"n","u","l","l">>
      [] v.t = "boolean" -> StringOf(v)
      [] v.t = "string" -> Quote(v.s)
      [] v.t = "array" -> <<"[">> \o StringifyElements(v.e, TRUE) \o <<"]">>
      [] v.t = "object" -> <<"{">> \o StringifyMembers(v.e, TRUE) \o <<"}">>

(***************************************************************************)
(* JSON.parse: a recursive-descent parser of the JSON grammar without      *)
(* escapes, fractions, exponents and signs (texts of the model hold none). *)
(* A parse yields [ok, v, rest].                                           *)
(***************************************************************************)
RECURSIVE ParseValue(_)
RECURSIVE ParseElements(_, _)
RECURSIVE ParseMembers(_, _)
RECURSIVE ParseChars(_, _)
RECURSIVE ParseDigits(_, _)

Parsed(v, rest) == [ok |-> TRUE, v |-> v, rest |-> rest]

NoParse == [ok |-> FALSE, v |-> Undefined, rest |-> <<>>]

StartsWith(s, p) == Len(s) >= Len(p) /\ SubSeq(s, 1, Len(p)) = p

\* ws: the model's only white space is the blank
SkipWs(s) == TrimLeft(s)

\* The characters of a string up to its closing quote.
ParseChars(s, acc) ==
    IF s = <<>> THEN NoParse
    ELSE IF s[1] = "\"" THEN Parsed(Str(acc), Tail(s))
    ELSE ParseChars(Tail(s), Append(acc, s[1]))

ParseDigits(s, acc) ==
    IF s # <<>> /\ IsDigit(s[1]) THEN ParseDigits(Tail(s), Append(acc, s[1]))
    ELSE Parsed(Num(DigitsValue(acc, 0)), s)

\* int: a lone 0, or a digit 1-9 and the digits after it
ParseNumber(s) ==
    IF s[1] = "0" THEN Parsed(Num(0), Tail(s)) ELSE ParseDigits(s, <<>>)

\* After "[" or a ",": an element, then "," or "]".
ParseElements(s, acc) ==
    LET r == ParseValue(s)
        t == SkipWs(r.rest)
    IN  IF ~r.ok \/ t = <<>> THEN NoParse
        ELSE IF t[1] = "]" THEN Parsed(Arr(Append(acc, r.v)), Tail(t))
        ELSE IF t[1] = "," THEN ParseElements(Tail(t), Append(acc, r.v))
        ELSE NoParse

\* After "{" or a ",": a string, ":", a value, then "," or "}".
ParseMembers(s, acc) ==
    LET u == SkipWs(s)
        k == IF u # <<>> /\ u[1] = "\"" THEN ParseChars(Tail(u), <<>>)
             ELSE NoParse
        c == SkipWs(k.rest)
        r == IF k.ok /\ c # <<>> /\ c[1] = ":" THEN ParseValue(Tail(c))
             ELSE NoParse
        t == SkipWs(r.rest)
        \* a repeated key keeps its place and takes the later value
        put == IF \E i \in DOMAIN acc : i % 2 = 1 /\ acc[i] = k.v
               THEN [i \in DOMAIN acc |->
                        IF i % 2 = 0 /\ acc[i - 1] = k.v THEN r.v ELSE acc[i]]
               ELSE acc \o <<k.v, r.v>>
    IN  IF ~r.ok \/ t = <<>> THEN NoParse
        ELSE IF t[1] = "}" THEN Parsed(Obj(put), Tail(t))
        ELSE IF t[1] = "," THEN ParseMembers(Tail(t), put)
        ELSE NoParse

ParseValue(s0) ==
    LET s == SkipWs(s0)
    IN  IF s = <<>> THEN NoParse
        ELSE IF s[1] = "[" THEN
            (LET t == SkipWs(Tail(s))
             IN  IF t # <<>> /\ t[1] = "]" THEN Parsed(Arr(<<>>), Tail(t))
                 ELSE ParseElements(Tail(s), <<>>))
        ELSE IF s[1] = "{" THEN
            (LET t == SkipWs(Tail(s))
             IN  IF t # <<>> /\ t[1] = "}" THEN Parsed(Obj(<<>>), Tail(t))
                 ELSE ParseMembers(Tail(s), <<>>))
        ELSE IF s[1] = "\"" THEN ParseChars(Tail(s), <<>>)
        ELSE IF IsDigit(s[1]) THEN ParseNumber(s)
        ELSE IF StartsWith(s, <<"t","r","u","e">>) THEN Parsed(Bool(TRUE), Drop(s, 4))
        ELSE IF StartsWith(s, <<"f","a","l","s","e">>) THEN Parsed(Bool(FALSE), Drop(s, 5))
        ELSE IF StartsWith(s, <<"n","u","l","l">>) THEN Parsed(Null, Drop(s, 4))
        ELSE NoParse

\* JSON.parse(text): the value, or a SyntaxError
JSONParse(text) ==
    LET r == ParseValue(text)
    IN  IF r.ok /\ SkipWs(r.rest) = <<>> THEN Ok(r.v) ELSE Raise("SyntaxError")

(***************************************************************************)
(* Names and texts of the model.                                           *)
(***************************************************************************)
fooBar == <<"f","o","o","B","a","r">>

FooBar == <<"F","o","o","B","a","r">>

testX == <<"t","e","s","t","X">>

foo == <<"f","o","o">>

testGetterSetter ==
    <<"t","e","s","t","G","e","t","t","e","r","S","e","t","t","e","r">>

Names == {fooBar, FooBar, testX, foo, testGetterSetter}

\* Attribute texts that markup and setAttribute supply.
Texts ==
    { <<>>,
      <<"5">>,
      <<"0","5">>,
      <<"x">>,
      <<"f","a","l","s","e">>,
      <<"[","1","]">>,
      <<"[","1",","," ","2","]">>,
      <<"{","}">>,
      <<"{","\"","a","\"",":","1","}">>,
      <<"n","u","l","l">> }

\* The texts the model supplies for the attributes other than foo-bar.
FewTexts == { <<>>, <<"x">> }

(***************************************************************************)
(* The name normalizer the binder imports, and the declaration registry.   *)
(***************************************************************************)
mustParameterize(name) == mustKebabCase(name)

\* The normalizer's outcome for the names of the model, computed once.
Parameterized == [n \in Names |-> mustParameterize(n)]

AttrNames == {Parameterized[n].val : n \in {m \in Names : Parameterized[m].ok}}

fooBarAttr == Parameterized[fooBar].val

TextsFor(a) == IF a = fooBarAttr THEN Texts ELSE FewTexts

Declaration(name, value) == [name |-> name, value |-> value]

\* attributeRegistry(metadata).push(name, value)
RegistryPush(reg, name, value) == Append(reg, Declaration(name, value))

\* attributeRegistry(metadata).all()
RegistryAll(reg) == reg

(***************************************************************************)
(* The element's attribute store.                                          *)
(***************************************************************************)
Absent == [present |-> FALSE, text |-> <<>>]

Present(text) == [present |-> TRUE, text |-> text]

hasAttribute(a, name) == a[name].present

getAttribute(a, name) == IF a[name].present THEN Str(a[name].text) ELSE Null

setAttribute(a, name, value) == [a EXCEPT ![name] = Present(StringOf(value))]

removeAttribute(a, name) == [a EXCEPT ![name] = Absent]

toggleAttribute(a, name, force) ==
    IF Truthy(force)
    THEN (IF a[name].present THEN a ELSE [a EXCEPT ![name] = Present(<<>>)])
    ELSE removeAttribute(a, name)

(***************************************************************************)
(* part_000: the five descriptors.  A descriptor is the record kept as the *)
(* instance's own property; its get and set are the operators below.       *)
(***************************************************************************)
NoProperty == [k |-> "none", kind |-> "none", attr |-> <<>>, value |-> Undefined]

DataProperty(v) == [k |-> "data", kind |-> "none", attr |-> <<>>, value |-> v]

Accessor(kind, parameterized) ==
    [k |-> "accessor", kind |-> kind, attr |-> parameterized, value |-> Undefined]

numberDescriptor(parameterized) == Accessor("number", parameterized)

booleanDescriptor(parameterized) == Accessor("boolean", parameterized)

stringDescriptor(parameterized) == Accessor("string", parameterized)

arrayDescriptor(parameterized) == Accessor("array", parameterized)

objectDescriptor(parameterized) == Accessor("object", parameterized)

numberGet(a, parameterized) ==
    Ok(ToNumber(OrElse(getAttribute(a, parameterized), Num(0))))

numberSet(a, parameterized, fresh) == setAttribute(a, parameterized, fresh)

booleanGet(a, parameterized) == Ok(Bool(hasAttribute(a, parameterized)))

\* A variant of the boolean setter that writes the value as text.
booleanSetAsText(a, parameterized, fresh) == setAttribute(a, parameterized, fresh)

booleanSet(a, parameterized, fresh) == toggleAttribute(a, parameterized, fresh)

stringGet(a, parameterized) ==
    Ok(OrElse(getAttribute(a, parameterized), Str(<<>>)))

\* A variant of the string setter that writes the JSON text of the string.
stringSetQuoted(a, parameterized, fresh) ==
    setAttribute(a, parameterized, Str(JSONStringify(OrElse(fresh, Str(<<>>)))))

stringSet(a, parameterized, fresh) ==
    setAttribute(a, parameterized, OrElse(fresh, Str(<<>>)))

arrayGet(a, parameterized) ==
    LET r == JSONParse(OrElse(getAttribute(a, parameterized), Str(<<"[","]">>)).s)
        value == r.val
    IN  IF ~r.ok THEN r
        ELSE IF value = Null \/ TypeOf(value) # "object" \/ ~IsArray(value)
        THEN Raise("TypeError")
        ELSE Ok(value)

\* A variant of the array setter that wraps the value in another array.
arraySetWrapped(a, parameterized, fresh) ==
    setAttribute(a, parameterized, Str(JSONStringify(Arr(<<OrElse(fresh, Arr(<<>>))>>))))

arraySet(a, parameterized, fresh) ==
    setAttribute(a, parameterized, Str(JSONStringify(OrElse(fresh, Arr(<<>>)))))

objectGet(a, parameterized) ==
    LET r == JSONParse(OrElse(getAttribute(a, parameterized), Str(<<"{","}">>)).s)
        value == r.val
    IN  IF ~r.ok THEN r
        ELSE IF value = Null \/ TypeOf(value) # "object" \/ IsArray(value)
        THEN Raise("TypeError")
        ELSE Ok(value)

objectSet(a, parameterized, fresh) ==
    setAttribute(a, parameterized, Str(JSONStringify(OrElse(fresh, Obj(<<>>)))))

\* descriptor.get.call(component)
DescriptorGet(d, a) ==
    CASE d.kind = "number" -> numberGet(a, d.attr)
      [] d.kind = "boolean" -> booleanGet(a, d.attr)
      [] d.kind = "string" -> stringGet(a, d.attr)
      [] d.kind = "array" -> arrayGet(a, d.attr)
      [] d.kind = "object" -> objectGet(a, d.attr)

\* descriptor.set.call(component, fresh)
DescriptorSet(d, a, fresh) ==
    CASE d.kind = "number" -> numberSet(a, d.attr, fresh)
      [] d.kind = "boolean" -> booleanSet(a, d.attr, fresh)
      [] d.kind = "string" -> stringSet(a, d.attr, fresh)
      [] d.kind = "array" -> arraySet(a, d.attr, fresh)
      [] d.kind = "object" -> objectSet(a, d.attr, fresh)

\* The property that wrote an attribute's text last, <<>> when none did.
NoWriter == <<>>

WriterAfter(w, a, d, name, fresh) ==
    IF d.kind # "boolean" THEN [w EXCEPT ![d.attr] = name]
    ELSE IF ~Truthy(fresh) THEN [w EXCEPT ![d.attr] = NoWriter]
    ELSE IF a[d.attr].present THEN w
    ELSE [w EXCEPT ![d.attr] = name]

(***************************************************************************)
(* Classes.  A member is a decorated or plain class element: its name, the *)
(* kind of element (context.kind), the type token given to @attribute and  *)
(* the initial value the element is written with.                          *)
(***************************************************************************)
Member(name, kind, decorated, type, init) ==
    [name |-> name, kind |-> kind, decorated |-> decorated, type |-> type,
     init |-> init]

Field(name, type, init) == Member(name, "field", TRUE, type, init)

Class(target, members) == [target |-> target, members |-> members]

a12 == Arr(<<Num(1), Num(2)>>)

aHole == Arr(<<Undefined>>)

oA1 == Obj(<<Str(<<"a">>), Num(1)>>)

oHole == Obj(<<Str(<<"a">>), Undefined>>)

sA == Str(<<"a">>)

\* The type tokens with the initial values the model declares them with.
TypedInits ==
    { <<"Number", Undefined>>, <<"Number", Num(0)>>, <<"Number", Num(12)>>,
      <<"Boolean", Undefined>>, <<"Boolean", Bool(FALSE)>>, <<"Boolean", Bool(TRUE)>>,
      <<"String", Undefined>>, <<"String", Str(<<>>)>>, <<"String", sA>>,
      <<"Array", Undefined>>, <<"Array", a12>>, <<"Array", aHole>>,
      <<"Object", Undefined>>, <<"Object", oA1>>, <<"Object", oHole>>,
      <<"BigInt", BigInt(1)>>, <<"BigInt", Undefined>>,
      <<"Number", sA>>, <<"Object", Null>> }

\* Classes of two declarations: two names of one attribute, two attributes,
\* and a declaration the binder rejects after or before a good one.
Pairs ==
    { <<Field(fooBar, "Number", Num(12)), Field(FooBar, "String", sA)>>,
      <<Field(fooBar, "Array", a12), Field(FooBar, "Number", Undefined)>>,
      <<Field(fooBar, "Number", Num(12)), Field(testX, "String", Undefined)>>,
      <<Field(fooBar, "Boolean", Bool(TRUE)), Field(testX, "Object", oA1)>>,
      <<Field(fooBar, "Number", Num(12)), Field(foo, "String", sA)>>,
      <<Field(fooBar, "Array", a12), Field(testX, "BigInt", BigInt(1))>>,
      <<Field(foo, "String", sA), Field(testX, "String", Undefined)>>,
      <<Field(testX, "BigInt", BigInt(1)), Field(fooBar, "Boolean", Bool(TRUE))>> }

Classes ==
    {Class("class", <<Field(fooBar, ti[1], ti[2])>>) : ti \in TypedInits}
    \cup {Class("class", p) : p \in Pairs}
    \cup { Class("class", <<Field(foo, "String", sA)>>),
           Class("class", <<Member(fooBar, "accessor", TRUE, "Number", Num(12))>>),
           Class("class", <<Member(testGetterSetter, "setter", TRUE, "String", sA)>>),
           Class("class", <<Member(testGetterSetter, "setter", FALSE, "String", sA)>>),
           Class("method", <<Field(fooBar, "String", sA)>>) }

\* The values a caller assigns to a property of a kind.
ValuesOf(kind) ==
    CASE kind = "number" -> {Num(0), Num(12)}
      [] kind = "boolean" -> {Bool(FALSE), Bool(TRUE)}
      [] kind = "string" -> {Str(<<>>), sA}
      [] kind = "array" -> {Arr(<<>>), a12, aHole}
      [] kind = "object" -> {Obj(<<>>), oA1, oHole}
      [] OTHER -> {Undefined, sA}

\* The members whose get/set pair the class author wrote (on the prototype).
CustomAccessors(c) ==
    {c.members[i].name : i \in {j \in DOMAIN c.members : c.members[j].kind = "setter"}}

MemberNames(c) == {c.members[i].name : i \in DOMAIN c.members}

MemberOf(c, name) ==
    c.members[CHOOSE i \in DOMAIN c.members : c.members[i].name = name]

(***************************************************************************)
(* part_000: attribute() and attributable(), the declaration side.         *)
(***************************************************************************)
\* value.constructor; reading it off null throws
ConstructorOf(v) ==
    CASE v.t \in {"number", "NaN"} -> "Number"
      [] v.t = "boolean" -> "Boolean"
      [] v.t = "string" -> "String"
      [] v.t = "array" -> "Array"
      [] v.t = "object" -> "Object"
      [] v.t = "bigint" -> "BigInt"
      [] OTHER -> "TypeError"

\* new options.type().valueOf(); BigInt is no constructor
NewValueOf(type) ==
    CASE type = "Number" -> Ok(Num(0))
      [] type = "Boolean" -> Ok(Bool(FALSE))
      [] type = "String" -> Ok(Str(<<>>))
      [] type = "Array" -> Ok(Arr(<<>>))
      [] type = "Object" -> Ok(Obj(<<>>))
      [] OTHER -> Raise("TypeError")

\* attribute(options)(_, context): the decorator proper
attributeDecorator(m) ==
    IF m.kind # "field" THEN "TypeError" ELSE "none"

\* The initializer attribute() returns for a field: [err, reg]
attributeInitializer(m, reg) ==
    LET value == m.init
    IN  IF value # Undefined /\ ConstructorOf(value) # m.type
        THEN [err |-> "TypeError", reg |-> reg]
        ELSE IF value = Undefined /\ ~NewValueOf(m.type).ok
        THEN [err |-> "TypeError", reg |-> reg]
        ELSE [err |-> "none",
              reg |-> RegistryPush(reg, m.name, Coalesce(value, NewValueOf(m.type).val))]

\* attributable()(constructor, context)
attributableDecorator(c) ==
    IF c.target # "class" THEN "TypeError" ELSE "none"

\* Class definition: the member decorators, then the class decorator.
defineClass(c) ==
    IF \E i \in DOMAIN c.members :
          c.members[i].decorated /\ attributeDecorator(c.members[i]) # "none"
    THEN "TypeError"
    ELSE attributableDecorator(c)

RECURSIVE initializeFields(_, _, _)
\* Construction: the field initializers in declaration order; the decorated
\* field's initializer returns nothing, so the field starts undefined.
initializeFields(ms, reg, p) ==
    IF ms = <<>> THEN [err |-> "none", reg |-> reg, props |-> p]
    ELSE IF ms[1].kind # "field" THEN initializeFields(Tail(ms), reg, p)
    ELSE LET r == attributeInitializer(ms[1], reg)
         IN  IF r.err # "none" THEN [err |-> r.err, reg |-> r.reg, props |-> p]
             ELSE initializeFields(Tail(ms), r.reg,
                      [p EXCEPT ![ms[1].name] = DataProperty(Undefined)])

(***************************************************************************)
(* part_000: initializeAttributable and the wrapped mountCallback.  The    *)
(* instance is threaded through as st = [props, attrs, writer, log, err,   *)
(* origCalls].                                                             *)
(***************************************************************************)
Installed(p) == {n \in Names : p[n].k = "accessor"}

Event(e, name, p) == [e |-> e, name |-> name, installed |-> Installed(p)]

\* The if / else-if chain on typeof value
descriptorFor(value, parameterized) ==
    IF TypeOf(value) = "number" THEN numberDescriptor(parameterized)
    ELSE IF TypeOf(value) = "boolean" THEN booleanDescriptor(parameterized)
    ELSE IF TypeOf(value) = "string" THEN stringDescriptor(parameterized)
    ELSE IF TypeOf(value) = "object" /\ IsArray(value) THEN arrayDescriptor(parameterized)
    ELSE IF TypeOf(value) = "object" /\ ~IsArray(value) THEN objectDescriptor(parameterized)
    ELSE NoProperty

\* name in component
HasProperty(p, name) == p[name].k # "none" \/ name \in CustomAccessors(klass)

\* A variant of the guard that ignores the attribute already present.
shouldReflectAlways(st, name, parameterized) == HasProperty(st.props, name)

\* name in component && !component.hasAttribute(parameterized)
shouldReflect(st, name, parameterized) ==
    HasProperty(st.props, name) /\ ~hasAttribute(st.attrs, parameterized)

\* A variant that leaves the field in place: the accessor is not installed.
definePropertySkipped(st, name, descriptor) ==
    [st EXCEPT !.log = Append(@, Event("defineProperty", name, st.props))]

\* Object.defineProperty(component, name, descriptor)
defineProperty(st, name, descriptor) ==
    [st EXCEPT !.props[name] = descriptor,
               !.log = Append(@, Event("defineProperty", name,
                                       [st.props EXCEPT ![name] = descriptor]))]

\* descriptor.set.call(component, value)
reflect(st, name, descriptor, value) ==
    [st EXCEPT !.attrs = DescriptorSet(descriptor, @, value),
               !.writer = WriterAfter(@, st.attrs, descriptor, name, value),
               !.log = Append(@, Event("set", name, st.props))]

\* A variant of the loop body that installs the accessor and never reflects.
bindOneNoReflect(st, entry) ==
    LET parameterized == mustParameterize(entry.name)
        descriptor == descriptorFor(entry.value, parameterized.val)
    IN  IF ~parameterized.ok THEN [st EXCEPT !.err = parameterized.err]
        ELSE IF descriptor = NoProperty THEN [st EXCEPT !.err = "TypeError"]
        ELSE defineProperty(st, entry.name, descriptor)

\* A variant of the loop body that installs before it validates the name.
bindOneDefineFirst(st, entry) ==
    LET parameterized == mustParameterize(entry.name)
        descriptor == descriptorFor(entry.value, toKebabCase(entry.name))
        defined == IF descriptor = NoProperty THEN st
                   ELSE defineProperty(st, entry.name, descriptor)
    IN  IF ~parameterized.ok THEN [defined EXCEPT !.err = parameterized.err]
        ELSE IF descriptor = NoProperty THEN [st EXCEPT !.err = "TypeError"]
        ELSE IF shouldReflect(defined, entry.name, parameterized.val)
        THEN reflect(defined, entry.name, descriptor, entry.value)
        ELSE defined

\* The body of the for loop, for one [name, value] of the registry
bindOne(st, entry) ==
    LET parameterized == mustParameterize(entry.name)
        descriptor == descriptorFor(entry.value, parameterized.val)
        defined == defineProperty(st, entry.name, descriptor)
    IN  IF ~parameterized.ok THEN [st EXCEPT !.err = parameterized.err]
        ELSE IF descriptor = NoProperty THEN [st EXCEPT !.err = "TypeError"]
        ELSE IF shouldReflect(defined, entry.name, parameterized.val)
        THEN reflect(defined, entry.name, descriptor, entry.value)
        ELSE defined

RECURSIVE bindFrom(_, _)
\* for (const [name, value] of attributeRegistry(metadata).all()) ...
bindFrom(st, entries) ==
    IF entries = <<>> \/ st.err # "none" THEN st
    ELSE bindFrom(bindOne(st, entries[1]), Tail(entries))

initializeAttributable(st, reg) == bindFrom(st, RegistryAll(reg))

\* super.mountCallback(): the host's own handler
superMountCallback(st) ==
    [st EXCEPT !.log = Append(@, Event("mountCallback", <<>>, st.props)),
               !.origCalls = @ + 1]

\* A variant of the wrapper that calls the host's handler first.
mountCallbackSuperFirst(st, reg) ==
    initializeAttributable(superMountCallback(st), reg)

\* The mountCallback of the class attributable() returns
mountCallback(st, reg) ==
    LET b == initializeAttributable(st, reg)
    IN  IF b.err # "none" THEN b ELSE superMountCallback(b)

(***************************************************************************)
(* Property access on the instance: an own accessor, an own data property, *)
(* or the author's get/set pair on the prototype (test/attributable.ts).   *)
(***************************************************************************)
\* instance[name], without the author's counter
Get(p, a, name) ==
    IF p[name].k = "accessor" THEN DescriptorGet(p[name], a)
    ELSE IF p[name].k = "data" THEN Ok(p[name].value)
    ELSE IF name \in CustomAccessors(klass) THEN Ok(priv)
    ELSE Ok(Undefined)

\* Whether instance[name] runs the author's getter / setter.
RunsCustom(p, name) == p[name].k = "none" /\ name \in CustomAccessors(klass)

\* The kind of value a caller assigns to instance[name].
AssignedKind(p, name) == IF p[name].k = "accessor" THEN p[name].kind ELSE "any"

AttrsOf(c) ==
    {Parameterized[n].val : n \in {m \in MemberNames(c) : Parameterized[m].ok}}

Op(op, name, arg, err) == [op |-> op, name |-> name, arg |-> arg, err |-> err]

Live == phase \in {"mounted", "mountFailed"}

(***************************************************************************)
(***************************************************************************)
Unset == [ok |-> FALSE, val |-> <<>>, err |-> "unset"]

NamingIdle == key = <<>> /\ normalized = Unset

Init ==
    /\ NamingIdle
    /\ klass \in Classes
    /\ phase = "defining"
    /\ error = "none"
    /\ registry = <<>>
    /\ props = [n \in Names |-> NoProperty]
    /\ attrs \in [AttrNames -> {Absent} \cup {Present(t) : t \in Texts}]
    /\ \A n \in AttrNames :
          /\ n \notin AttrsOf(klass) => attrs[n] = Absent
          /\ attrs[n].present => attrs[n].text \in TextsFor(n)
    /\ priv = Undefined
    /\ getCalls = 0
    /\ setCalls = 0
    /\ log = <<>>
    /\ mounts = 0
    /\ origCalls = 0
    /\ writer = [n \in AttrNames |-> NoWriter]
    /\ lastOp = Op("none", <<>>, Undefined, "none")

\* The class body is evaluated: decorators run.
Define ==
    /\ phase = "defining"
    /\ error' = defineClass(klass)
    /\ phase' = IF defineClass(klass) = "none" THEN "defined" ELSE "defineFailed"
    /\ lastOp' = Op("define", <<>>, Undefined, defineClass(klass))
    /\ UNCHANGED <<namingVars, klass, registry, props, attrs, priv, getCalls,
                   setCalls, log, mounts, origCalls, writer>>

\* new Class(): the field initializers run; #testGetterSetter is set.
Construct ==
    /\ phase = "defined"
    /\ LET r == initializeFields(klass.members, registry, props)
           c == CustomAccessors(klass)
       IN  /\ error' = r.err
           /\ phase' = IF r.err = "none" THEN "constructed" ELSE "constructFailed"
           /\ registry' = r.reg
           /\ props' = r.props
           /\ priv' = IF c = {} THEN priv ELSE MemberOf(klass, CHOOSE n \in c : TRUE).init
           /\ lastOp' = Op("construct", <<>>, Undefined, r.err)
    /\ UNCHANGED <<namingVars, klass, attrs, getCalls, setCalls, log, mounts,
                   origCalls, writer>>

\* The element is connected: the wrapped mountCallback runs.
Mount ==
    /\ phase \in {"constructed", "mounted", "mountFailed"}
    /\ mounts < MaxMounts
    /\ LET st == mountCallback([props |-> props, attrs |-> attrs, writer |-> writer,
                                log |-> <<>>, err |-> "none", origCalls |-> origCalls],
                               registry)
       IN  /\ props' = st.props
           /\ attrs' = st.attrs
           /\ writer' = st.writer
           /\ log' = st.log
           /\ error' = st.err
           /\ origCalls' = st.origCalls
           /\ phase' = IF st.err = "none" THEN "mounted" ELSE "mountFailed"
           /\ lastOp' = Op("mount", <<>>, Undefined, st.err)
    /\ mounts' = mounts + 1
    /\ UNCHANGED <<namingVars, klass, registry, priv, getCalls, setCalls>>

\* x = instance[name]
GetProperty(name) ==
    /\ Live
    /\ name \in MemberNames(klass)
    /\ RunsCustom(props, name) => getCalls < MaxCalls
    /\ getCalls' = IF RunsCustom(props, name) THEN getCalls + 1 ELSE getCalls
    /\ lastOp' = Op("get", name, Get(props, attrs, name).val, Get(props, attrs, name).err)
    /\ UNCHANGED <<namingVars, klass, phase, error, registry, props, attrs, priv,
                   setCalls, log, mounts, origCalls, writer>>

\* The effect of instance[name] = v on props, attrs, writer, priv, setCalls.
Assign(name, v) ==
    /\ RunsCustom(props, name) => setCalls < MaxCalls
    /\ IF props[name].k = "accessor"
       THEN /\ attrs' = DescriptorSet(props[name], attrs, v)
            /\ writer' = WriterAfter(writer, attrs, props[name], name, v)
            /\ UNCHANGED <<props, priv, setCalls>>
       ELSE IF props[name].k = "data"
       THEN /\ props' = [props EXCEPT ![name] = DataProperty(v)]
            /\ UNCHANGED <<attrs, writer, priv, setCalls>>
       ELSE IF RunsCustom(props, name)
       THEN /\ priv' = v
            /\ setCalls' = setCalls + 1
            /\ UNCHANGED <<props, attrs, writer>>
       ELSE UNCHANGED <<props, attrs, writer, priv, setCalls>>

\* instance[name] = v
SetProperty(name, v) ==
    /\ Live
    /\ name \in MemberNames(klass)
    /\ Assign(name, v)
    /\ lastOp' = Op("set", name, v, "none")
    /\ UNCHANGED <<namingVars, klass, phase, error, registry, getCalls, log,
                   mounts, origCalls>>

\* instance[name] = instance[name]
WriteBack(name) ==
    /\ Live
    /\ name \in MemberNames(klass)
    /\ Get(props, attrs, name).ok
    /\ RunsCustom(props, name) => getCalls < MaxCalls
    /\ getCalls' = IF RunsCustom(props, name) THEN getCalls + 1 ELSE getCalls
    /\ Assign(name, Get(props, attrs, name).val)
    /\ lastOp' = Op("writeBack", name, Get(props, attrs, name).val, "none")
    /\ UNCHANGED <<namingVars, klass, phase, error, registry, log, mounts,
                   origCalls>>

\* instance.setAttribute(a, text), from outside the binder
SetAttribute(a, text) ==
    /\ Live
    /\ a \in AttrsOf(klass)
    /\ attrs' = setAttribute(attrs, a, Str(text))
    /\ writer' = [writer EXCEPT ![a] = NoWriter]
    /\ lastOp' = Op("setAttribute", a, Undefined, "none")
    /\ UNCHANGED <<namingVars, klass, phase, error, registry, props, priv,
                   getCalls, setCalls, log, mounts, origCalls>>

\* instance.toggleAttribute(a, force), from outside the binder
ToggleAttribute(a, force) ==
    /\ Live
    /\ a \in AttrsOf(klass)
    /\ attrs' = toggleAttribute(attrs, a, Bool(force))
    /\ writer' = IF force /\ attrs[a].present THEN writer
                 ELSE [writer EXCEPT ![a] = NoWriter]
    /\ lastOp' = Op("toggleAttribute", a, Undefined, "none")
    /\ UNCHANGED <<namingVars, klass, phase, error, registry, props, priv,
                   getCalls, setCalls, log, mounts, origCalls>>

\* instance.removeAttribute(a), from outside the binder
RemoveAttribute(a) ==
    /\ Live
    /\ a \in AttrsOf(klass)
    /\ attrs' = removeAttribute(attrs, a)
    /\ writer' = [writer EXCEPT ![a] = NoWriter]
    /\ lastOp' = Op("removeAttribute", a, Undefined, "none")
    /\ UNCHANGED <<namingVars, klass, phase, error, registry, props, priv,
                   getCalls, setCalls, log, mounts, origCalls>>

Next ==
    \/ Define
    \/ Construct
    \/ Mount
    \/ \E name \in Names : GetProperty(name)
    \/ \E name \in Names : \E v \in ValuesOf(AssignedKind(props, name)) :
          SetProperty(name, v)
    \/ \E name \in Names : WriteBack(name)
    \/ \E a \in AttrNames : \E text \in TextsFor(a) : SetAttribute(a, text)
    \/ \E a \in AttrNames : \E force \in BOOLEAN : ToggleAttribute(a, force)
    \/ \E a \in AttrNames : RemoveAttribute(a)

Spec == Init /\ [][Next]_vars

(***************************************************************************)
(* The name normalizer on its own: keys are typed in over a small alphabet *)
(* or taken from the names the tests declare.                              *)
(***************************************************************************)
KeyChars == {"a", "A", "B", "-", "1"}

fooBarBazBing == <<"f","o","o","B","a","r","B","a","z","B","i","n","g">>

URLBar == <<"U","R","L","B","a","r">>

ClipX == <<"C","l","i","p","X">>

TestNames == {fooBarBazBing, URLBar, ClipX, foo}

ComponentIdle ==
    /\ klass = Class("class", <<>>)
    /\ phase = "defining"
    /\ error = "none"
    /\ registry = <<>>
    /\ props = [n \in Names |-> NoProperty]
    /\ attrs = [n \in AttrNames |-> Absent]
    /\ priv = Undefined
    /\ getCalls = 0
    /\ setCalls = 0
    /\ log = <<>>
    /\ mounts = 0
    /\ origCalls = 0
    /\ writer = [n \in AttrNames |-> NoWriter]
    /\ lastOp = Op("none", <<>>, Undefined, "none")

InitNaming == NamingIdle /\ ComponentIdle

TypeChar(c) ==
    /\ Len(key) < MaxKeyLen
    /\ key' = Append(key, c)
    /\ normalized' = Unset
    /\ UNCHANGED componentVars

TakeName(k) ==
    /\ key' = k
    /\ normalized' = Unset
    /\ UNCHANGED componentVars

\* normalized = mustKebabCase(key), or the exception it threw
Normalize ==
    /\ normalized = Unset
    /\ normalized' = mustKebabCase(key)
    /\ UNCHANGED <<key, componentVars>>

NextNaming ==
    \/ \E c \in KeyChars : TypeChar(c)
    \/ \E k \in TestNames : TakeName(k)
    \/ Normalize

SpecNaming == InitNaming /\ [][NextNaming]_vars

(***************************************************************************)
(* What the claims speak of: the kind of a declared value, the encoding    *)
(* and the decoding of each kind, stated apart from the descriptors.       *)
(***************************************************************************)
KindOf(v) ==
    CASE v.t \in {"number", "NaN"} -> "number"
      [] v.t = "boolean" -> "boolean"
      [] v.t = "string" -> "string"
      [] v.t = "array" -> "array"
      [] v.t \in {"object", "null"} -> "object"
      [] OTHER -> "unsupported"

TextKinds == {"number", "string", "array", "object"}

\* The attribute a value of a kind is reflected as.
EncodingOf(v) ==
    CASE KindOf(v) = "number" -> Present(StringOf(v))
      [] KindOf(v) = "string" -> Present(v.s)
      [] KindOf(v) = "boolean" -> IF v = Bool(TRUE) THEN Present(<<>>) ELSE Absent
      [] KindOf(v) = "array" -> Present(JSONStringify(v))
      [] KindOf(v) = "object" -> Present(JSONStringify(v))

\* What a property of a kind reads for an attribute (present or absent).
Decoding(kind, cell) ==
    LET blank == ~cell.present \/ cell.text = <<>>
        json == JSONParse(IF blank
                          THEN (IF kind = "array" THEN <<"[","]">> ELSE <<"{","}">>)
                          ELSE cell.text)
    IN  CASE kind = "number" -> Ok(IF blank THEN Num(0) ELSE ToNumber(Str(cell.text)))
          [] kind = "boolean" -> Ok(Bool(cell.present))
          [] kind = "string" -> Ok(Str(IF cell.present THEN cell.text ELSE <<>>))
          [] kind \in {"array", "object"} ->
                IF ~json.ok THEN Raise("SyntaxError")
                ELSE IF json.val.t = kind THEN Ok(json.val)
                ELSE Raise("TypeError")

\* A value JSON represents without loss.
Lossless(v) == KindOf(v) \in {"array", "object"} => JSONParse(JSONStringify(v)) = Ok(v)

AttrOf(name) == Parameterized[name].val

DeclNames == [i \in DOMAIN registry |-> registry[i].name]

\* No earlier declaration of the class normalizes to declaration i's attribute.
FirstOfAttr(i) ==
    \A j \in 1..(i - 1) :
        ~Parameterized[registry[j].name].ok
        \/ AttrOf(registry[j].name) # AttrOf(registry[i].name)

\* A step of the wrapped mountCallback.
MountStep == mounts' = mounts + 1

Logged(e, name) == \E k \in DOMAIN log : log[k].e = e /\ log[k].name = name

C2_AttributeWins ==
    [][MountStep =>
        \A i \in DOMAIN registry :
            (/\ Parameterized[registry[i].name].ok
             /\ attrs[AttrOf(registry[i].name)].present) =>
                /\ attrs'[AttrOf(registry[i].name)] = attrs[AttrOf(registry[i].name)]
                /\ props'[registry[i].name].k = "accessor" =>
                      Get(props', attrs', registry[i].name)
                        = Decoding(KindOf(registry[i].value),
                                   attrs[AttrOf(registry[i].name)])]_vars

\* Markup 5 has won over the declared default 12.
C2_Witness ==
    /\ lastOp.op = "mount"
    /\ mounts = 1
    /\ registry # <<>>
    /\ registry[1] = Declaration(fooBar, Num(12))
    /\ ~Logged("set", fooBar)
    /\ attrs[fooBarAttr] = Present(<<"5">>)
    /\ Get(props, attrs, fooBar) = Ok(Num(5))

(***************************************************************************)
(* C3.  The attribute is the only store.                                   *)
(***************************************************************************)
\* C3: once the binder has installed the accessors, in every state reached
\* by property writes and by outside setAttribute / toggleAttribute /
\* removeAttribute calls, a bound property reads the decoding of its
\* attribute as it is now, and a property write shows in the attribute at
\* once.
C3_SingleStore ==
    phase = "mounted" =>
        /\ \A i \in DOMAIN registry :
              Get(props, attrs, registry[i].name)
                = Decoding(KindOf(registry[i].value), attrs[AttrOf(registry[i].name)])
        /\ (lastOp.op = "set" /\ props[lastOp.name].k = "accessor") =>
              LET cell == attrs[AttrOf(lastOp.name)]
              IN  IF KindOf(lastOp.arg) = "boolean"
                  THEN cell.present = (lastOp.arg = Bool(TRUE))
                  ELSE cell = EncodingOf(lastOp.arg)

\* An outside setAttribute("foo-bar", "05") is read as 5 by the Number
\* property whose default, 12, had been reflected.
C3_Witness ==
    /\ phase = "mounted"
    /\ lastOp.op = "setAttribute"
    /\ registry = <<Declaration(fooBar, Num(12))>>
    /\ attrs[fooBarAttr] = Present(<<"0","5">>)
    /\ Get(props, attrs, fooBar) = Ok(Num(5))

(***************************************************************************)
(* C4.  Round trip.                                                        *)
(***************************************************************************)
\* C4 as stated: for every value v of the Number, String, Array or
\* PlainObject kind, after v is written to the bound property the property
\* reads v.
C4_RoundTrip_AsStated ==
    (/\ lastOp.op = "set"
     /\ props[lastOp.name].k = "accessor"
     /\ props[lastOp.name].kind \in TextKinds) =>
        Get(props, attrs, lastOp.name) = Ok(lastOp.arg)

\* C4 as amended: the same, for every v that JSON represents without loss
\* (an array or object holding undefined is not such a value).
C4_RoundTrip ==
    (/\ lastOp.op = "set"
     /\ props[lastOp.name].k = "accessor"
     /\ props[lastOp.name].kind \in TextKinds
     /\ Lossless(lastOp.arg)) =>
        Get(props, attrs, lastOp.name) = Ok(lastOp.arg)

\* The empty string has been written to a String property and is read back.
C4_Witness ==
    /\ lastOp = Op("set", fooBar, Str(<<>>), "none")
    /\ props[fooBar].k = "accessor"
    /\ props[fooBar].kind = "string"
    /\ attrs[fooBarAttr] = Present(<<>>)
    /\ Get(props, attrs, fooBar) = Ok(Str(<<>>))

(***************************************************************************)
(* C5.  Boolean: presence only.                                            *)
(***************************************************************************)
\* C5: a Boolean property reads true whenever its attribute is present,
\* whatever the text, and false exactly when it is absent; writing true
\* makes the attribute present, writing false removes it, and after a write
\* of b the property reads b.
C5_BooleanPresence ==
    \A name \in Names :
        (props[name].k = "accessor" /\ props[name].kind = "boolean") =>
            /\ Get(props, attrs, name) = Ok(Bool(attrs[props[name].attr].present))
            /\ (lastOp.op = "set" /\ lastOp.name = name) =>
                  /\ attrs[props[name].attr].present = (lastOp.arg = Bool(TRUE))
                  /\ Get(props, attrs, name) = Ok(lastOp.arg)

\* The text "false" reads as true.
C5_Witness ==
    /\ lastOp.op = "setAttribute"
    /\ props[fooBar].k = "accessor"
    /\ props[fooBar].kind = "boolean"
    /\ attrs[fooBarAttr] = Present(<<"f","a","l","s","e">>)
    /\ Get(props, attrs, fooBar) = Ok(Bool(TRUE))

(***************************************************************************)
(* C6.  The name normalizer.                                               *)
(***************************************************************************)
RECURSIVE Concat(_)
Concat(pieces) == IF pieces = <<>> THEN <<>> ELSE pieces[1] \o Concat(Tail(pieces))

\* k in lower case, with a separator before each capital that is not the
\* first character and is directly followed by a lower-case letter or by
\* the end of k.
SeparatedAtCapitals(k) ==
    Concat([i \in DOMAIN k |->
               (IF i > 1 /\ IsUpper(k[i]) /\ (i = Len(k) \/ IsLower(k[i + 1]))
                THEN <<"-">> ELSE <<>>) \o <<ToLowerChar(k[i])>>])

Dehyphen(s) == SelectSeq(s, LAMBDA c : c # "-")

MustResult(k) == IF includes(k, "-") THEN Return(k) ELSE Throw("SyntaxError")

\* C6 as stated: the separator goes before every run of one or more capitals
\* that is followed by a lower-case letter or the end of the string (then
\* doubled separators are collapsed, an edge separator is stripped and the
\* result is lower-cased); mustKebabCase returns that or raises.
C6_Normalizer_AsStated ==
    normalized # Unset => normalized = MustResult(toKebabCaseByRuns(key))

\* C6 as amended: the separator goes before every capital that is directly
\* followed by a lower-case letter or the end of the string, so that
\* fooBarBazBing -> foo-bar-baz-bing, URLBar -> url-bar, ClipX -> clip-x;
\* the result is lower case and keeps the key's letters in order;
\* mustKebabCase returns it when it holds a "-" and raises otherwise (foo).
C6_Normalizer ==
    normalized # Unset =>
        /\ key = fooBarBazBing =>
              normalized = Return(<<"f","o","o","-","b","a","r","-","b","a","z",
                                    "-","b","i","n","g">>)
        /\ key = URLBar => normalized = Return(<<"u","r","l","-","b","a","r">>)
        /\ key = ClipX => normalized = Return(<<"c","l","i","p","-","x">>)
        /\ key = foo => normalized = Throw("SyntaxError")
        /\ ~includes(key, "-") => normalized = MustResult(SeparatedAtCapitals(key))
        /\ normalized.ok =>
              /\ includes(normalized.val, "-")
              /\ \A i \in DOMAIN normalized.val : ~IsUpper(normalized.val[i])
              /\ Dehyphen(normalized.val) = toLowerCase(Dehyphen(key))
        /\ ~normalized.ok => normalized = Throw("SyntaxError")

\* URLBar has been normalized: one separator, after the acronym's last but
\* one capital.
C6_Witness ==
    /\ key = URLBar
    /\ normalized = Return(<<"u","r","l","-","b","a","r">>)

(***************************************************************************)
(* C7.  Writing back the value a property holds.                           *)
(***************************************************************************)
\* C7 as stated: for the Number, String, Array and PlainObject kinds, in
\* every state in which the property can be read, writing back the value
\* it holds leaves the attribute as it was.
C7_WriteBack_AsStated ==
    [][(/\ lastOp'.op = "writeBack"
        /\ props[lastOp'.name].k = "accessor"
        /\ props[lastOp'.name].kind \in TextKinds) =>
            attrs'[props[lastOp'.name].attr] = attrs[props[lastOp'.name].attr]]_vars

\* C7 as amended: the same, when the attribute's text was last written by
\* that property's own setter (the binder's reflection of the default or a
\* property write), not from outside or by another property.
C7_WriteBack ==
    [][(/\ lastOp'.op = "writeBack"
        /\ props[lastOp'.name].k = "accessor"
        /\ props[lastOp'.name].kind \in TextKinds
        /\ writer[props[lastOp'.name].attr] = lastOp'.name) =>
            attrs'[props[lastOp'.name].attr] = attrs[props[lastOp'.name].attr]]_vars

\* An Array property has written [1,2] and has then been written back.
C7_Witness ==
    /\ lastOp = Op("writeBack", fooBar, a12, "none")
    /\ props[fooBar].k = "accessor"
    /\ props[fooBar].kind = "array"
    /\ writer[fooBarAttr] = fooBar
    /\ attrs[fooBarAttr] = Present(<<"[","1",",","2","]">>)

(***************************************************************************)
(* C8.  A get/set pair the class author wrote.                             *)
(***************************************************************************)
\* C8: a class that declares a property with the author's own get/set pair
\* can be defined and mounted; mounting a fresh instance runs the author's
\* getter exactly once and the author's setter at most once.
C8_AccessorInterop ==
    \A i \in DOMAIN klass.members :
        (klass.members[i].kind = "setter" /\ klass.members[i].decorated) =>
            /\ phase # "defineFailed"
            /\ (lastOp.op = "mount" /\ mounts = 1) =>
                  /\ getCalls = 1
                  /\ setCalls <= 1

(***************************************************************************)
(* C9.  The wrapped mountCallback.                                         *)
(***************************************************************************)
\* C9: every invocation of the wrapped mountCallback installs the class's
\* declarations in declaration order and to the end before the host's own
\* mountCallback starts, then calls that exactly once, with every declared
\* property installed; when the binder fails the host's mountCallback is
\* not called.
C9_MountOrder ==
    [][MountStep =>
        LET installs == SelectSeq(log', LAMBDA ev : ev.e = "defineProperty")
            calls == SelectSeq(log', LAMBDA ev : ev.e = "mountCallback")
        IN  IF error' = "none"
            THEN /\ [i \in DOMAIN installs |-> installs[i].name] = DeclNames
                 /\ Len(calls) = 1
                 /\ log'[Len(log')].e = "mountCallback"
                 /\ calls[1].installed = Range(DeclNames)
                 /\ origCalls' = origCalls + 1
            ELSE /\ calls = <<>>
                 /\ origCalls' = origCalls]_vars

\* A class of two declarations has been mounted, and the host's handler ran.
C9_Witness ==
    /\ lastOp.op = "mount"
    /\ error = "none"
    /\ Len(registry) = 2
    /\ origCalls = mounts
    /\ log[Len(log)].e = "mountCallback"
    /\ log[Len(log)].installed = {fooBar, testX}

(***************************************************************************)
(* C10.  A failing binder.                                                 *)
(***************************************************************************)
\* Declaration i is one the binder rejects.
Rejected(i) ==
    ~Parameterized[registry[i].name].ok \/ KindOf(registry[i].value) = "unsupported"

\* C10 as stated: when the binder fails, no accessor is installed and no
\* attribute is written for any declaration of the class.
C10_AllOrNothing_AsStated ==
    [][(MountStep /\ error' # "none") =>
        /\ \A i \in DOMAIN registry : props'[registry[i].name].k # "accessor"
        /\ attrs' = attrs]_vars

\* C10 as amended: when the binder fails at a declaration, nothing is
\* installed or written for that declaration and the ones after it; the
\* declarations before it stay applied (accessor installed, an absent
\* attribute reflected) and nothing is rolled back.
C10_FailsFast ==
    [][(MountStep /\ error' # "none") =>
        \E k \in DOMAIN registry :
            /\ Rejected(k)
            /\ \A j \in 1..(k - 1) : ~Rejected(j)
            /\ error' = IF ~Parameterized[registry[k].name].ok
                        THEN "SyntaxError" ELSE "TypeError"
            /\ \A j \in k..Len(registry) :
                  props'[registry[j].name] = props[registry[j].name]
            /\ \A j \in 1..(k - 1) :
                  LET p == AttrOf(registry[j].name)
                  IN  /\ props'[registry[j].name]
                           = Accessor(KindOf(registry[j].value), p)
                      /\ attrs[p].present => attrs'[p] = attrs[p]
                      /\ (~attrs[p].present /\ FirstOfAttr(j)) =>
                            attrs'[p] = EncodingOf(registry[j].value)
            /\ \A a \in AttrNames :
                  (\A j \in 1..(k - 1) : AttrOf(registry[j].name) # a) =>
                      attrs'[a] = attrs[a]]_vars

\* The binder failed on its second declaration after applying the first.
C10_Witness ==
    /\ lastOp = Op("mount", <<>>, Undefined, "SyntaxError")
    /\ registry = <<Declaration(fooBar, Num(12)), Declaration(foo, sA)>>
    /\ props[fooBar] = Accessor("number", fooBarAttr)
    /\ attrs[fooBarAttr] = Present(<<"1","2">>)
    /\ props[foo] = DataProperty(Undefined)

=============================================================================
